---------------------------- MODULE Spec2Model ----------------------------
(***************************************************************************)
(* A model of release-service-utils' SBOM tooling (src/sbom):              *)
(*   - the credential scope resolver  sbomlib.get_oci_auth_file            *)
(*   - the SPDX-2.3 rewrite handler   handlers/spdx_2_3.py                 *)
(*   - the dialect dispatch and the orchestrator of update_component_sbom  *)
(*   - make_snapshot and construct_image, the scratch credential files of  *)
(*     the fetches, and Component.unique_tag                               *)
(*   - the retry loop of sbomlib.run_async_subprocess                      *)
(* Python strings are sequences of characters (or of multi-character       *)
(* tokens where the code never looks inside them); None is the value None. *)
(***************************************************************************)
EXTENDS Integers, Sequences, FiniteSets, TLC

VARIABLES
    \* --- credential scope resolver ---
    reference,   \* the image reference handed to get_oci_auth_file
    config,      \* the docker config.json: whether it exists, and its JSON
    fp,          \* the sink: the JSON values dumped to it, in order
    authRet,     \* "pending", then what get_oci_auth_file returned or raised
    \* --- SPDX-2.3 handler ---
    component,   \* the Component handed to update_sbom
    image,       \* the Image / IndexImage handed to update_sbom
    sbom,        \* the SBOM document (a dict mutated in place)
    results,     \* the outcome of each update_sbom call so far, in order
    sboms,       \* the document as loaded, then as it is after each call
    \* --- orchestrator ---
    snapshot,    \* the Snapshot: its components, in order
    remote,      \* what the registry holds as the SBOM of each digest
    unitPc,      \* where each unit's update_sbom task is
    unitErr,     \* the error a failed unit raised
    compPc,      \* where each component's update_component_sboms task is
    files,       \* the files written so far: path -> JSON content
    writes,      \* every write to a file so far: the path, the unit, the writer
    runPc,       \* where update_sboms is
    scratch,     \* the scratch credential files that exist: name and owner
    \* --- make_snapshot ---
    snapshotSpec, \* the components of the snapshot spec file, in order
    manifests,   \* what the registry holds as the manifest of each digest
    optimize,    \* whether Python runs with -O (assert statements removed)
    makePc,      \* where make_snapshot is
    taskPc,      \* where each make_component task is
    taskDigest,  \* the validated image_digest of each entry
    taskOut,     \* what each construct_image raised or returned
    fetches,     \* the manifest fetches started: the task and its reference
    made,        \* the components of the Snapshot returned
    \* --- Component.unique_tag ---
    tagList,     \* the tags of a component
    uniqueTag,   \* whether unique_tag was read, and the value it gave
    \* --- run_async_subprocess ---
    retry_times, \* the retry_times argument
    attempts,    \* the processes spawned so far, in order: None while one
                 \* runs, then its exit code and captured output
    subPc,       \* where the call is
    subRet       \* what the call returned or raised

authVars    == <<reference, config, fp, authRet>>
handlerVars == <<component, image, sbom, results, sboms>>
runVars     == <<snapshot, remote, unitPc, unitErr, compPc, files, writes, runPc>>
makeVars    == <<snapshotSpec, manifests, optimize, makePc, taskPc, taskDigest,
                 taskOut, fetches, made>>
tagVars     == <<tagList, uniqueTag>>
subVars     == <<retry_times, attempts, subPc, subRet>>
vars        == <<authVars, handlerVars, runVars, scratch, makeVars, tagVars, subVars>>

\* Optional values: None, or Some(x); Val unwraps
None    == <<>>
Some(x) == <<x>>
Val(o)  == o[1]

Range(s) == {s[i] : i \in DOMAIN s}

(***************************************************************************)
(* Bounds of the model.                                                    *)
(***************************************************************************)
MaxRefLen == 4     \* longest reference path / store key, in characters
MaxKeys   == 2     \* most entries of the credential store

(***************************************************************************)
(* ------------------------- Python string helpers ----------------------- *)
(***************************************************************************)
Alphabet == {"a", "/"}

Strs(n) == UNION {[1..k -> Alphabet] : k \in 0..n}

\* s.split(sep, 1)[0]: the part of s before the first sep, s when there is none
SplitFirstHead(s, sep) ==
    IF sep \notin Range(s) THEN s
    ELSE LET i == CHOOSE j \in DOMAIN s :
                      s[j] = sep /\ \A k \in 1..(j - 1) : s[k] # sep
         IN  SubSeq(s, 1, i - 1)

\* s.rsplit(sep, 1)[0]: the part of s before the last sep, s when there is none
RSplitLastHead(s, sep) ==
    IF sep \notin Range(s) THEN s
    ELSE LET i == CHOOSE j \in DOMAIN s :
                      s[j] = sep /\ \A k \in (j + 1)..Len(s) : s[k] # sep
         IN  SubSeq(s, 1, i - 1)

(***************************************************************************)
(* ----------------------- Credential scope resolver --------------------- *)
(***************************************************************************)
Digest0 == <<"@", "sha256:deadbeef">>       \* the digest suffix of a reference

\* the docker config: is_file() and, when it is one, its parsed JSON object
NoFile       == [is_file |-> FALSE, json |-> <<>>]
ConfigOf(js) == [is_file |-> TRUE, json |-> js]

\* the credential stored under a key: an opaque object, distinct per entry
Credential(key) == [auth |-> key]

\* config.get("auths", {})
ConfigAuths(cfg) == IF "auths" \in DOMAIN cfg THEN cfg.auths ELSE <<>>

\* faulty variant: the lookup shortens the path one character at a time
RECURSIVE auth_lookup_charwise(_, _)
auth_lookup_charwise(auths, current_ref) ==
    IF current_ref \in DOMAIN auths
    THEN Some(auths[current_ref])
    ELSE IF current_ref = <<>>
         THEN None
         ELSE auth_lookup_charwise(auths, SubSeq(current_ref, 1, Len(current_ref) - 1))

\* the while-loop of get_oci_auth_file: the token found, or None
RECURSIVE auth_lookup(_, _)
auth_lookup(auths, current_ref) ==
    IF current_ref \in DOMAIN auths
    THEN Some(auths[current_ref])
    ELSE IF "/" \notin Range(current_ref)
         THEN None
         ELSE auth_lookup(auths, RSplitLastHead(current_ref, "/"))

\* faulty variant: a missing credential is raised as an error, nothing is written
get_oci_auth_file_raising(ref_, cfg) ==
    IF ~cfg.is_file
    THEN [ret |-> "ValueError", written |-> <<>>]
    ELSE LET ref      == SplitFirstHead(ref_, "@")
             registry == SplitFirstHead(ref, "/")
             token    == auth_lookup(ConfigAuths(cfg.json), ref)
         IN  IF token # None
             THEN [ret |-> "True",
                   written |-> <<[auths |-> (registry :> Val(token))]>>]
             ELSE [ret |-> "ValueError", written |-> <<>>]

\* get_oci_auth_file(reference, auth, fp): what it returns (or raises) and
\* what it dumps to fp
get_oci_auth_file(ref_, cfg) ==
    IF ~cfg.is_file
    THEN [ret |-> "ValueError", written |-> <<>>]
    ELSE LET ref      == SplitFirstHead(ref_, "@")
             registry == SplitFirstHead(ref, "/")
             token    == auth_lookup(ConfigAuths(cfg.json), ref)
         IN  IF token # None
             THEN [ret |-> "True",
                   written |-> <<[auths |-> (registry :> Val(token))]>>]
             ELSE [ret |-> "False", written |-> <<[auths |-> <<>>]>>]

References == {r \o Digest0 : r \in Strs(MaxRefLen)}

\* the subsets of S with at most n elements
RECURSIVE SubsetsUpTo(_, _)
SubsetsUpTo(S, n) ==
    IF n = 0 THEN {{}}
    ELSE LET smaller == SubsetsUpTo(S, n - 1)
         IN  smaller \cup {T \cup {x} : T \in smaller, x \in S}

Stores ==
    {[k \in K |-> Credential(k)] : K \in SubsetsUpTo(Strs(MaxRefLen), MaxKeys)}

Configs ==
    {NoFile, ConfigOf([credsStore |-> "x"])}
        \cup {ConfigOf([auths |-> a]) : a \in Stores}

GetOciAuthFile ==
    /\ authRet = "pending"
    /\ LET r == get_oci_auth_file(reference, config)
       IN  /\ authRet' = r.ret
           /\ fp' = fp \o r.written
    /\ UNCHANGED <<reference, config, handlerVars, runVars, scratch, makeVars, tagVars, subVars>>

(***************************************************************************)
(* ------------------------------ Data model ----------------------------- *)
(* Strings the code looks into are sequences of tokens: a digest is        *)
(* <<"sha256:", hex>>, a repository is its segments separated by "/".      *)
(***************************************************************************)
MaxPackages == 2   \* most packages of a document
MaxChildren == 1   \* most children of an index image
MaxTags     == 2   \* most tags of a component
MaxCalls    == 2   \* most update_sbom calls on one document

SeqsUpTo(S, n) == UNION {[1..k -> S] : k \in 0..n}

Hexes == {<<"aa">>, <<"bb">>}

DigestOf(hex) == <<"sha256:">> \o hex

Digests == {DigestOf(h) : h \in Hexes}

\* Image(digest) and IndexImage(digest, children)
Image(digest) == [kind |-> "Image", digest |-> digest, children |-> <<>>]

IndexImage(digest, children) ==
    [kind |-> "IndexImage", digest |-> digest, children |-> children]

LeafImages == {Image(d) : d \in Digests}

IndexDigest == DigestOf(<<"aa">>)

Images ==
    LeafImages
        \cup {IndexImage(IndexDigest, c) : c \in SeqsUpTo(LeafImages, MaxChildren)}

\* tags, character by character
TagLatest == <<"l", "a", "t", "e", "s", "t">>
TagDated  == <<"8", ".", "4", "-", "2", "0", "2", "3", "0", "1", "0", "1">>

Tags == {TagLatest, TagDated}

ReleaseRepository == <<"registry.redhat.io", "/", "org", "/", "test">>
BuildRepository   == <<"quay.io", "/", "build", "/", "img">>

Component(repository, image_, tags) ==
    [repository |-> repository, image |-> image_, tags |-> tags]

Components ==
    {Component(ReleaseRepository, i, t) : i \in Images, t \in SeqsUpTo(Tags, MaxTags)}

(***************************************************************************)
(* Component.unique_tag: re.match of                                       *)
(*   (rhel-)?v?[0-9]+\.[0-9]+(\.[0-9]+)?-[0-9]{8,}                         *)
(* computed on sets of positions: each step maps the positions the prefix  *)
(* of the pattern can end at to those the longer prefix can end at.        *)
(***************************************************************************)
DigitChars == {"0", "1", "2", "3", "4", "5", "6", "7", "8", "9"}

\* after a literal
AfterLit(s, P, lit) ==
    {p + Len(lit) : p \in {q \in P : /\ q + Len(lit) - 1 <= Len(s)
                                     /\ SubSeq(s, q, q + Len(lit) - 1) = lit}}

\* after [0-9]{min,}
AfterDigits(s, P, min) ==
    {e \in 1..(Len(s) + 1) :
        \E p \in P : e - p >= min /\ \A k \in p..(e - 1) : s[k] \in DigitChars}

unique_tag_regex_match(tag) ==
    LET P1 == {1} \cup AfterLit(tag, {1}, <<"r", "h", "e", "l", "-">>)
        P2 == P1 \cup AfterLit(tag, P1, <<"v">>)
        P3 == AfterDigits(tag, P2, 1)
        P4 == AfterLit(tag, P3, <<".">>)
        P5 == AfterDigits(tag, P4, 1)
        P6 == P5 \cup AfterDigits(tag, AfterLit(tag, P5, <<".">>), 1)
        P7 == AfterLit(tag, P6, <<"-">>)
        P8 == AfterDigits(tag, P7, 8)
    IN  P8 # {}

RECURSIVE first_matching_tag(_)
first_matching_tag(tags) ==
    IF tags = <<>> THEN None
    ELSE IF unique_tag_regex_match(Head(tags)) THEN Some(Head(tags))
         ELSE first_matching_tag(Tail(tags))

unique_tag(comp) == first_matching_tag(comp.tags)

(***************************************************************************)
(* ------------------------------- Purls --------------------------------- *)
(* str(PackageURL(...)) and PackageURL.from_string: the string is held by  *)
(* its parts, each percent-encoded as in the string; a qualifier with an   *)
(* empty value is not written.                                             *)
(***************************************************************************)
QuoteToken(t)   == IF t = "+" THEN "%2B" ELSE t
UnquoteToken(t) == IF t = "%2B" THEN "+" ELSE t

Quote(s)   == [i \in DOMAIN s |-> QuoteToken(s[i])]
Unquote(s) == [i \in DOMAIN s |-> UnquoteToken(s[i])]

\* the qualifiers kept: those given (not None) and not empty
KeptQualifiers(quals) ==
    {k \in DOMAIN quals : quals[k] # None /\ Val(quals[k]) # <<>>}

\* str(PackageURL(type, name, version, qualifiers))
PurlToString(type, name, version, quals) ==
    [scheme     |-> "pkg",
     type       |-> type,
     name       |-> Quote(name),
     version    |-> IF version = None THEN None ELSE Some(Quote(Val(version))),
     qualifiers |-> [k \in KeptQualifiers(quals) |-> Quote(Val(quals[k]))]]

\* PackageURL.from_string(purl_str)
PurlFromString(str) ==
    [type       |-> str.type,
     name       |-> Unquote(str.name),
     version    |-> IF str.version = None THEN None
                    ELSE Some(Unquote(Val(str.version))),
     qualifiers |-> [k \in DOMAIN str.qualifiers |-> Unquote(str.qualifiers[k])]]

\* repository.split("/")[-1]
RECURSIVE LastSegment(_)
LastSegment(s) ==
    IF "/" \notin Range(s) THEN s
    ELSE LastSegment(Tail(s))

\* faulty variant: the whole repository is used as the name
construct_purl_full_name(repository, digest, arch, tag) ==
    PurlToString("oci", repository, Some(digest),
                 [repository_url |-> Some(repository), arch |-> arch, tag |-> tag])

construct_purl(repository, digest, arch, tag) ==
    PurlToString("oci", LastSegment(repository), Some(digest),
                 [repository_url |-> Some(repository), arch |-> arch, tag |-> tag])

\* get_purl_arch: the arch qualifier, or None
get_purl_arch(purl_str) ==
    LET purl == PurlFromString(purl_str)
    IN  IF "arch" \in DOMAIN purl.qualifiers
        THEN Some(purl.qualifiers["arch"]) ELSE None

\* get_purl_digest: the version; ValueError when the purl has none
get_purl_digest(purl_str) ==
    LET purl == PurlFromString(purl_str)
    IN  IF purl.version = None
        THEN [err |-> "ValueError", digest |-> <<>>]
        ELSE [err |-> "ok", digest |-> Val(purl.version)]

make_reference(repository, image_digest) == repository \o <<"@">> \o image_digest

\* digest.removeprefix("sha256:")
without_sha_header(digest) ==
    IF digest # <<>> /\ Head(digest) = "sha256:" THEN Tail(digest) ELSE digest

(***************************************************************************)
(* --------------------------- SBOM documents ---------------------------- *)
(***************************************************************************)
Checksum(algorithm, value) == [algorithm |-> algorithm, checksumValue |-> value]

\* a package's "checksums": None when the key is absent
ChecksumLists ==
    {None,
     Some(<<Checksum("SHA256", <<"aa">>)>>),
     Some(<<Checksum("SHA1", <<"aa">>), Checksum("SHA256", <<"bb">>)>>),
     Some(<<Checksum("SHA256", <<"bb">>), Checksum("SHA256", <<"aa">>)>>)}

\* an SPDX external reference holding a purl
_make_purl_ref(purl) ==
    [referenceCategory |-> "PACKAGE-MANAGER",
     referenceType     |-> "purl",
     referenceLocator  |-> purl]

ArchAmd64 == <<"amd64">>
ArchArm   == <<"arm", "+", "v7">>

\* a purl written at build time
BuildPurl(version, arch) ==
    PurlToString("oci", LastSegment(BuildRepository), version,
                 [repository_url |-> Some(BuildRepository), arch |-> arch])

RefAmd64   == _make_purl_ref(BuildPurl(Some(DigestOf(<<"aa">>)), Some(ArchAmd64)))
RefArm     == _make_purl_ref(BuildPurl(Some(DigestOf(<<"bb">>)), Some(ArchArm)))
RefVersionless == _make_purl_ref(BuildPurl(None, None))

\* the external references a package may carry when loaded
BuildRefLists ==
    {<<>>, <<RefAmd64>>, <<RefAmd64, RefArm>>, <<RefArm, RefAmd64>>,
     <<RefArm, RefVersionless>>}

Package(spdxid, checksums, refs) ==
    [SPDXID |-> spdxid, checksums |-> checksums, externalRefs |-> refs]

Packages ==
    {Package("SPDXRef-image", c, r) :
        c \in ChecksumLists, r \in BuildRefLists}

SpdxVersions == {Some("SPDX-2.3"), Some("SPDX-2.2")}

Document(version, name, packages) ==
    [spdxVersion |-> version,
     bomFormat   |-> None,
     specVersion |-> None,
     dataLicense |-> "CC0-1.0",
     name        |-> name,
     packages    |-> packages]

BuildName == <<"quay.io", "/", "build", "/", "img", "@", "sha256:", "00">>

Documents ==
    {Document(v, BuildName, p) :
        v \in SpdxVersions, p \in SeqsUpTo(Packages, MaxPackages)}

(***************************************************************************)
(* ------------------------- SPDX-2.3 handler ---------------------------- *)
(* A handler call mutates the document in place and may raise part-way:    *)
(* each operator yields the document as it then is and the error raised    *)
(* ("ok" when none).                                                       *)
(***************************************************************************)
supported_version == "SPDX-2.3"

Outcome(doc, err) == [sbom |-> doc, err |-> err]

PurlResult(err, purl) == [err |-> err, purl |-> purl]

_get_updated_index_purl(package, repository, index_digest, tag) ==
    IF Len(package.externalRefs) < 1
    THEN PurlResult("IndexError", None)
    ELSE LET original_index_purl == package.externalRefs[1].referenceLocator
             arch == get_purl_arch(original_index_purl)
         IN  PurlResult("ok", Some(construct_purl(repository, index_digest, arch, tag)))

\* faulty variant: the image purl is read from position 0, like the index purl
_get_updated_multiarch_image_purl_pos0(package, repository, tag) ==
    IF Len(package.externalRefs) < 2
    THEN PurlResult("IndexError", None)
    ELSE LET original_image_purl == package.externalRefs[1].referenceLocator
             d == get_purl_digest(original_image_purl)
         IN  IF d.err # "ok"
             THEN PurlResult(d.err, None)
             ELSE PurlResult("ok", Some(construct_purl(repository, d.digest, None, tag)))

_get_updated_multiarch_image_purl(package, repository, tag) ==
    IF Len(package.externalRefs) < 2
    THEN PurlResult("IndexError", None)
    ELSE LET original_image_purl == package.externalRefs[2].referenceLocator
             d == get_purl_digest(original_image_purl)
         IN  IF d.err # "ok"
             THEN PurlResult(d.err, None)
             ELSE PurlResult("ok", Some(construct_purl(repository, d.digest, None, tag)))

_get_updated_image_purl(package, repository, tag) ==
    IF Len(package.externalRefs) < 1
    THEN PurlResult("IndexError", None)
    ELSE LET original_image_purl == package.externalRefs[1].referenceLocator
             d == get_purl_digest(original_image_purl)
         IN  IF d.err # "ok"
             THEN PurlResult(d.err, None)
             ELSE PurlResult("ok", Some(construct_purl(repository, d.digest, None, tag)))

\* the value of the first checksum with algorithm SHA256, or None
RECURSIVE first_sha256(_)
first_sha256(checksums) ==
    IF checksums = <<>> THEN None
    ELSE IF Head(checksums).algorithm = "SHA256"
         THEN Some(Head(checksums).checksumValue)
         ELSE first_sha256(Tail(checksums))

\* whether _find_image_package returns this package
package_matches(package, digest) ==
    /\ package.checksums # None
    /\ Some(without_sha_header(digest)) = first_sha256(Val(package.checksums))

\* faulty variant: the scan keeps the last package that matches
_find_image_package_last(doc, digest) ==
    LET hits == {i \in DOMAIN doc.packages : package_matches(doc.packages[i], digest)}
    IN  IF hits = {} THEN 0
        ELSE CHOOSE i \in hits : \A j \in hits : i >= j

\* the position of the package _find_image_package returns, 0 for None
_find_image_package(doc, digest) ==
    LET hits == {i \in DOMAIN doc.packages : package_matches(doc.packages[i], digest)}
    IN  IF hits = {} THEN 0
        ELSE CHOOSE i \in hits : \A j \in hits : i <= j

_extract_sha256_checksum(package) ==
    IF package.checksums = None THEN None
    ELSE first_sha256(Val(package.checksums))

\* faulty variant: a package without a SHA256 checksum is taken as relevant
_is_relevant_unchecksummed(package, index) ==
    LET sha256_checksum == _extract_sha256_checksum(package)
    IN  IF sha256_checksum = None THEN TRUE
        ELSE LET child_digests == {index.children[i].digest : i \in DOMAIN index.children}
                 digest == <<"sha256:">> \o Val(sha256_checksum)
             IN  digest \in child_digests

_is_relevant(package, index) ==
    LET sha256_checksum == _extract_sha256_checksum(package)
    IN  IF sha256_checksum = None THEN FALSE
        ELSE LET child_digests == {index.children[i].digest : i \in DOMAIN index.children}
                 digest == <<"sha256:">> \o Val(sha256_checksum)
             IN  digest \in child_digests

\* the loop of _update_index_image_sbom over sbom["packages"], from package k
RECURSIVE update_relevant_packages(_, _, _, _)
update_relevant_packages(comp, index, doc, k) ==
    IF k > Len(doc.packages) THEN Outcome(doc, "ok")
    ELSE LET package == doc.packages[k]
         IN  IF ~_is_relevant(package, index)
             THEN update_relevant_packages(comp, index, doc, k + 1)
             ELSE LET index_purl == _get_updated_index_purl(
                                        package, comp.repository, index.digest,
                                        unique_tag(comp))
                      image_purl == _get_updated_multiarch_image_purl(
                                        package, comp.repository, unique_tag(comp))
                  IN  IF index_purl.err # "ok" THEN Outcome(doc, index_purl.err)
                      ELSE IF image_purl.err # "ok" THEN Outcome(doc, image_purl.err)
                      ELSE update_relevant_packages(
                               comp, index,
                               [doc EXCEPT !.packages[k].externalRefs =
                                   <<_make_purl_ref(Val(index_purl.purl)),
                                     _make_purl_ref(Val(image_purl.purl))>>],
                               k + 1)

\* faulty variant: the version check accepts every version
version_error_unchecked(doc) ==
    IF doc.spdxVersion = None THEN "KeyError" ELSE "ok"

\* the version check both variants start with
version_error(doc) ==
    IF doc.spdxVersion = None THEN "KeyError"
    ELSE IF Val(doc.spdxVersion) # supported_version THEN "ValueError"
    ELSE "ok"

_update_index_image_sbom(comp, index, doc) ==
    IF version_error(doc) # "ok" THEN Outcome(doc, version_error(doc))
    ELSE LET named == [doc EXCEPT !.name = make_reference(comp.repository, index.digest)]
             index_package == _find_image_package(named, index.digest)
         IN  IF index_package = 0 THEN Outcome(named, "SBOMError")
             ELSE LET index_purl == construct_purl(comp.repository, index.digest,
                                                   None, unique_tag(comp))
                  IN  update_relevant_packages(
                          comp, index,
                          [named EXCEPT !.packages[index_package].externalRefs =
                              <<_make_purl_ref(index_purl)>>],
                          1)

\* faulty variant: the name is assigned only once the package was found
_update_image_sbom_name_last(comp, image_, doc) ==
    IF version_error(doc) # "ok" THEN Outcome(doc, version_error(doc))
    ELSE LET named == [doc EXCEPT !.name = make_reference(comp.repository, image_.digest)]
             image_package == _find_image_package(doc, image_.digest)
         IN  IF image_package = 0 THEN Outcome(doc, "SBOMError")
             ELSE LET image_purl == _get_updated_image_purl(
                                        named.packages[image_package],
                                        comp.repository, unique_tag(comp))
                  IN  IF image_purl.err # "ok" THEN Outcome(named, image_purl.err)
                      ELSE Outcome(
                               [named EXCEPT !.packages[image_package].externalRefs =
                                   <<_make_purl_ref(Val(image_purl.purl))>>],
                               "ok")

_update_image_sbom(comp, image_, doc) ==
    IF version_error(doc) # "ok" THEN Outcome(doc, version_error(doc))
    ELSE LET named == [doc EXCEPT !.name = make_reference(comp.repository, image_.digest)]
             image_package == _find_image_package(named, image_.digest)
         IN  IF image_package = 0 THEN Outcome(named, "SBOMError")
             ELSE LET image_purl == _get_updated_image_purl(
                                        named.packages[image_package],
                                        comp.repository, unique_tag(comp))
                  IN  IF image_purl.err # "ok" THEN Outcome(named, image_purl.err)
                      ELSE Outcome(
                               [named EXCEPT !.packages[image_package].externalRefs =
                                   <<_make_purl_ref(Val(image_purl.purl))>>],
                               "ok")

\* SPDXVersion23.update_sbom
update_sbom(comp, image_, doc) ==
    IF image_.kind = "IndexImage" THEN _update_index_image_sbom(comp, image_, doc)
    ELSE _update_image_sbom(comp, image_, doc)

UpdateSbom ==
    /\ Len(results) < MaxCalls
    /\ LET r == update_sbom(component, image, sbom)
       IN  /\ sbom' = r.sbom
           /\ results' = Append(results, r.err)
           /\ sboms' = Append(sboms, r.sbom)
    /\ UNCHANGED <<component, image, authVars, runVars, scratch, makeVars, tagVars, subVars>>

(***************************************************************************)
(* ------------------- scratch credential files -------------------------- *)
(* get_image_manifest and fetch_sbom each write the credential they need   *)
(* to a NamedTemporaryFile of their own.                                   *)
(***************************************************************************)
MaxScratch == 3   \* temporary file names the system can hand out

ScratchNames == 1..MaxScratch

\* faulty variant: the file is deleted only when the block ends normally
with_exit_on_success(scratch_, file, outcome) ==
    IF outcome = "ok" THEN scratch_ \ {file} ELSE scratch_

\* leaving "with tempfile.NamedTemporaryFile(...) as authfile": the file is
\* deleted however the block is left
with_exit(scratch_, file, outcome) == scratch_ \ {file}

\* the same for every block among owners that is left at once
with_exit_all(scratch_, owners, outcome) ==
    {f \in scratch_ : f.owner \in owners => f \in with_exit(scratch_, f, outcome)}

ScratchFile(name, owner) == [name |-> name, owner |-> owner]

\* the names NamedTemporaryFile can pick: those of no existing file
FreeNames == ScratchNames \ {f.name : f \in scratch}

(***************************************************************************)
(* --------------- update_component_sbom.py: the orchestrator ------------ *)
(* One unit per image of the snapshot: <<c, 0>> is component c's own       *)
(* image, <<c, j>> the j-th child of its index image.                      *)
(***************************************************************************)
MaxUnits == 3      \* most units of a snapshot

UnitsOfComponent(snap, c) ==
    {<<c, j>> : j \in 0..Len(snap[c].image.children)}

UnitsOfSnapshot(snap) == UNION {UnitsOfComponent(snap, c) : c \in DOMAIN snap}

RunComponents == {Component(ReleaseRepository, i, <<TagLatest, TagDated>>) : i \in Images}

Snapshots ==
    {s \in SeqsUpTo(RunComponents, MaxUnits) :
        Cardinality(UnitsOfSnapshot(s)) <= MaxUnits}

UnitImage(u) ==
    IF u[2] = 0 THEN snapshot[u[1]].image
    ELSE snapshot[u[1]].image.children[u[2]]

IsIndexComponent(c) == snapshot[c].image.kind = "IndexImage"

\* JSON values: an object (a document), or a two-element array of a document
\* and a string
JsonObject(doc)     == [kind |-> "object", doc |-> doc, path |-> <<>>]
JsonPair(doc, path) == [kind |-> "array", doc |-> doc, path |-> path]

\* what the registry holds for a reference: nothing (cosign exits non-zero),
\* or the bytes cosign writes to stdout
NoSbom == [kind |-> "missing", doc |-> <<>>, path |-> <<>>]

DestinationPath(digest) == <<"dest", "/">> \o digest

\* one aiofiles.open(path, "w" / "wb") and write, by a unit's fetch_sbom or
\* write_sbom
FileWrite(path, u, by) == [path |-> path, unit |-> u, by |-> by]

OtherPath == <<"other.json">>

\* an SPDX-2.3 document of an image: one package carrying its checksum
SpdxDocumentOf(hex) ==
    Document(Some("SPDX-2.3"), BuildName,
             <<Package("SPDXRef-image",
                       Some(<<Checksum("SHA256", hex)>>), <<RefAmd64>>)>>)

CycloneDxDocument(specVersion) ==
    [spdxVersion |-> None,
     bomFormat   |-> Some("CycloneDX"),
     specVersion |-> specVersion,
     dataLicense |-> "CC0-1.0",
     name        |-> BuildName,
     packages    |-> <<>>]

UnknownDocument ==
    [spdxVersion |-> None,
     bomFormat   |-> None,
     specVersion |-> None,
     dataLicense |-> "CC0-1.0",
     name        |-> BuildName,
     packages    |-> <<>>]

RemoteContents(hex) ==
    IF hex = <<"aa">>
    THEN {NoSbom,
          JsonObject(SpdxDocumentOf(hex)),
          JsonObject(CycloneDxDocument(Some("1.6"))),
          JsonPair(SpdxDocumentOf(hex), DestinationPath(DigestOf(hex))),
          JsonPair(SpdxDocumentOf(hex), OtherPath),
          JsonPair(SpdxDocumentOf(<<"bb">>), OtherPath),
          JsonPair(CycloneDxDocument(None), DestinationPath(DigestOf(hex))),
          JsonPair(UnknownDocument, DestinationPath(DigestOf(hex)))}
    ELSE {NoSbom,
          JsonPair(SpdxDocumentOf(hex), DestinationPath(DigestOf(hex)))}

Remotes ==
    {f \in [Digests -> UNION {RemoteContents(h) : h \in Hexes}] :
        \A h \in Hexes : f[DigestOf(h)] \in RemoteContents(h)}

\* the docker configs of a run: none, one without a credential for the
\* release registry, one with it
RunConfigs ==
    {NoFile,
     ConfigOf([auths |-> (<<"quay.io">> :> Credential(<<"quay.io">>))]),
     ConfigOf([auths |-> (<<"registry.redhat.io">> :>
                              Credential(<<"registry.redhat.io">>))])}

\* fetch_sbom up to its subprocess: the error raised, "ok" when none
fetch_sbom_error(reference_, cfg, remote_) ==
    LET auth == get_oci_auth_file(reference_, cfg)
    IN  IF auth.ret = "ValueError" THEN "ValueError"
        ELSE IF auth.ret = "False" THEN "RuntimeError"
        ELSE IF remote_.kind = "missing" THEN "RuntimeError"
        ELSE "ok"

\* the keys an object has: dataLicense, name and packages, and each of the
\* optional keys that is present
KeyCount(doc) ==
    3 + Cardinality({o \in {<<"spdxVersion", doc.spdxVersion>>,
                            <<"bomFormat", doc.bomFormat>>,
                            <<"specVersion", doc.specVersion>>} : o[2] # None})

\* "sbom, sbom_path = await load_sbom(...)": load_sbom returns the parsed
\* JSON value alone; unpacking it succeeds on a two-element array, yields
\* the two key strings of a two-key object (on which sbom.get then fails)
\* and fails on every other object
unpack_error(json) ==
    IF json.kind = "array" THEN "ok"
    ELSE IF KeyCount(json.doc) = 2 THEN "AttributeError"
    ELSE "ValueError"

\* SPDX_2_3.update_index_image_sbom / update_image_sbom of
\* update_component_sbom.py: the handler without tags
SPDX_2_3_update(repository, image_, doc) ==
    update_sbom(Component(repository, image_, <<>>), image_, doc)

\* the dispatch of update_component_sbom.update_sbom on the loaded document
dispatch_update(repository, image_, doc) ==
    IF doc.spdxVersion = Some("SPDX-2.3")
    THEN SPDX_2_3_update(repository, image_, doc)
    ELSE IF doc.bomFormat = Some("CycloneDX")
         THEN Outcome(doc, "ok")
         ELSE Outcome(doc, "SBOMError")

\* handlers.get_handler: the handler chosen, none, or the error raised
get_handler(doc) ==
    IF doc.spdxVersion = Some("SPDX-2.3") THEN "SPDXVersion23"
    ELSE IF doc.bomFormat = Some("CycloneDX") /\ doc.specVersion = Some("1.6")
         THEN "NotImplementedError"
         ELSE "None"

\* asyncio.gather(*tasks) awaited with return_exceptions set: it returns once
\* every task has ended and raises nothing
gather_return_exceptions(tasks) ==
    IF tasks \subseteq {"done", "failed"} THEN "returned" ELSE "pending"

\* asyncio.gather(*tasks) as the code awaits it: the first exception of a
\* task is raised at once, the result is returned when every task returned
gather(tasks) ==
    IF "failed" \in tasks THEN "raised"
    ELSE IF tasks \subseteq {"done"} THEN "returned"
    ELSE "pending"

UnitAlive(u) == unitPc[u] \in {"created", "fetching", "fetched"}

SbomTask(u) == <<"sbom", u>>

\* a unit ends: a leaf component's task is its unit
EndUnit(u, pc, err) ==
    /\ unitPc' = [unitPc EXCEPT ![u] = pc]
    /\ unitErr' = [unitErr EXCEPT ![u] = err]
    /\ compPc' = IF IsIndexComponent(u[1]) THEN compPc
                 ELSE [compPc EXCEPT ![u[1]] = pc]

\* fetch_sbom up to the start of cosign: the scratch file is created and
\* filled; without a credential the unit ends here
StartFetchSbom(u) ==
    /\ unitPc[u] = "created"
    /\ \E name \in FreeNames :
          LET file == ScratchFile(name, SbomTask(u))
              ref  == make_reference(snapshot[u[1]].repository, UnitImage(u).digest)
              auth == get_oci_auth_file(ref, config)
              err  == IF auth.ret = "ValueError" THEN "ValueError"
                      ELSE IF auth.ret = "False" THEN "RuntimeError"
                      ELSE "ok"
          IN  IF err # "ok"
              THEN /\ scratch' = with_exit(scratch \cup {file}, file, err)
                   /\ EndUnit(u, "failed", err)
              ELSE /\ scratch' = scratch \cup {file}
                   /\ unitPc' = [unitPc EXCEPT ![u] = "fetching"]
                   /\ UNCHANGED <<unitErr, compPc>>
    /\ UNCHANGED <<snapshot, remote, runPc, files, writes, authVars, handlerVars,
                   makeVars, tagVars, subVars>>

\* fetch_sbom from the end of cosign on: the scratch file goes, and what
\* cosign printed is written to the destination directory
FetchSbom(u) ==
    /\ unitPc[u] = "fetching"
    /\ LET digest == UnitImage(u).digest
           ref    == make_reference(snapshot[u[1]].repository, digest)
           err    == fetch_sbom_error(ref, config, remote[digest])
           file   == CHOOSE f \in scratch : f.owner = SbomTask(u)
       IN  /\ scratch' = with_exit(scratch, file, err)
           /\ IF err # "ok"
              THEN EndUnit(u, "failed", err) /\ UNCHANGED <<files, writes>>
              ELSE /\ files' = (DestinationPath(digest) :> remote[digest]) @@ files
                   /\ writes' = writes \cup
                          {FileWrite(DestinationPath(digest), u, "fetch_sbom")}
                   /\ unitPc' = [unitPc EXCEPT ![u] = "fetched"]
                   /\ UNCHANGED <<unitErr, compPc>>
    /\ UNCHANGED <<snapshot, remote, runPc, authVars, handlerVars,
                   makeVars, tagVars, subVars>>

\* the rest of update_sbom: load, unpack, dispatch, write
UpdateLoadedSbom(u) ==
    /\ unitPc[u] = "fetched"
    /\ LET digest == UnitImage(u).digest
           json   == files[DestinationPath(digest)]
           r      == dispatch_update(snapshot[u[1]].repository, UnitImage(u), json.doc)
       IN  IF unpack_error(json) # "ok"
           THEN EndUnit(u, "failed", unpack_error(json)) /\ UNCHANGED <<files, writes>>
           ELSE IF r.err # "ok"
           THEN EndUnit(u, "failed", r.err) /\ UNCHANGED <<files, writes>>
           ELSE /\ EndUnit(u, "done", "ok")
                /\ files' = (json.path :> JsonObject(r.sbom)) @@ files
                /\ writes' = writes \cup {FileWrite(json.path, u, "write_sbom")}
    /\ UNCHANGED <<snapshot, remote, runPc, authVars, handlerVars, scratch, makeVars, tagVars, subVars>>

\* update_component_sboms of an index: gather raises the first exception
ComponentRaise(c) ==
    /\ IsIndexComponent(c)
    /\ compPc[c] = "running"
    /\ gather({unitPc[u] : u \in UnitsOfComponent(snapshot, c)}) = "raised"
    /\ compPc' = [compPc EXCEPT ![c] = "failed"]
    /\ UNCHANGED <<snapshot, remote, unitPc, unitErr, files, writes, runPc,
                   authVars, handlerVars, scratch, makeVars, tagVars, subVars>>

\* ... and returns when every unit has returned
ComponentReturn(c) ==
    /\ IsIndexComponent(c)
    /\ compPc[c] = "running"
    /\ gather({unitPc[u] : u \in UnitsOfComponent(snapshot, c)}) = "returned"
    /\ compPc' = [compPc EXCEPT ![c] = "done"]
    /\ UNCHANGED <<snapshot, remote, unitPc, unitErr, files, writes, runPc,
                   authVars, handlerVars, scratch, makeVars, tagVars, subVars>>

\* update_sboms: gather raises the first exception out of the run; the event
\* loop that ran it (asyncio.run) then cancels every task still pending
RunRaise ==
    /\ runPc = "running"
    /\ gather({compPc[c] : c \in DOMAIN snapshot}) = "raised"
    /\ runPc' = "failed"
    /\ unitPc' = [u \in DOMAIN unitPc |->
                    IF UnitAlive(u) THEN "cancelled" ELSE unitPc[u]]
    /\ compPc' = [c \in DOMAIN compPc |->
                    IF compPc[c] = "running" THEN "cancelled" ELSE compPc[c]]
    /\ scratch' = with_exit_all(scratch, {SbomTask(u) : u \in DOMAIN unitPc},
                                "CancelledError")
    /\ UNCHANGED <<snapshot, remote, unitErr, files, writes, authVars,
                   handlerVars, makeVars, tagVars, subVars>>

\* ... and returns when every component's task has returned
RunReturn ==
    /\ runPc = "running"
    /\ gather({compPc[c] : c \in DOMAIN snapshot}) = "returned"
    /\ runPc' = "succeeded"
    /\ UNCHANGED <<snapshot, remote, unitPc, unitErr, compPc, files, writes,
                   authVars, handlerVars, scratch, makeVars, tagVars, subVars>>

MakeIdle ==
    /\ snapshotSpec = <<>>
    /\ manifests = <<>>
    /\ optimize = FALSE
    /\ makePc = "idle"
    /\ taskPc = <<>>
    /\ taskDigest = <<>>
    /\ taskOut = <<>>
    /\ fetches = <<>>
    /\ made = <<>>

\* what run_async_subprocess has given back: nothing yet
NoReturn == [err |-> "none", code |-> 0, output |-> <<>>]

SubIdle ==
    /\ retry_times = 0
    /\ attempts = <<>>
    /\ subPc = "idle"
    /\ subRet = NoReturn

\* the property has not been read
NotRead == [read |-> FALSE, value |-> None]

TagsIdle ==
    /\ tagList = <<>>
    /\ uniqueTag = NotRead

RunIdle ==
    /\ snapshot = <<>>
    /\ remote = <<>>
    /\ unitPc = <<>>
    /\ unitErr = <<>>
    /\ compPc = <<>>
    /\ files = <<>>
    /\ writes = {}
    /\ runPc = "idle"

InitRun ==
    /\ snapshot \in Snapshots
    /\ remote \in Remotes
    /\ config \in RunConfigs
    /\ unitPc = [u \in UnitsOfSnapshot(snapshot) |-> "created"]
    /\ unitErr = [u \in UnitsOfSnapshot(snapshot) |-> "none"]
    /\ compPc = [c \in DOMAIN snapshot |-> "running"]
    /\ files = <<>>
    /\ writes = {}
    /\ runPc = "running"
    /\ reference = <<>>
    /\ fp = <<>>
    /\ authRet = "idle"
    /\ component = None
    /\ image = None
    /\ sbom = None
    /\ results = <<>>
    /\ sboms = <<>>
    /\ scratch = {}
    /\ MakeIdle
    /\ TagsIdle
    /\ SubIdle

NextRun ==
    \/ \E u \in DOMAIN unitPc : StartFetchSbom(u)
    \/ \E u \in DOMAIN unitPc : FetchSbom(u)
    \/ \E u \in DOMAIN unitPc : UpdateLoadedSbom(u)
    \/ \E c \in DOMAIN snapshot : ComponentRaise(c)
    \/ \E c \in DOMAIN snapshot : ComponentReturn(c)
    \/ RunRaise
    \/ RunReturn

SpecRun == InitRun /\ [][NextRun]_vars

(***************************************************************************)
(* ---------------- sbomlib.py: resolving a snapshot spec ---------------- *)
(* make_snapshot validates the spec file, then resolves every component's  *)
(* image concurrently: one make_component task per entry, each fetching    *)
(* one manifest through a scratch credential file of its own.              *)
(***************************************************************************)
MaxComponents == 2   \* most components of a snapshot spec
\* the strings of the spec file, character by character
Sha256Header == <<"s", "h", "a", "2", "5", "6", ":">>
HexDigits ==
    {"0", "1", "2", "3", "4", "5", "6", "7", "8", "9", "a", "b", "c", "d", "e", "f"}

PullSpec(repo, hex) == repo \o <<"@">> \o Sha256Header \o hex

BuildRepo     == <<"q", "/", "r">>
BuildRepoPort == <<"q", ":", "5", "/", "r">>

DigestAA == Sha256Header \o <<"a", "a">>
DigestBB == Sha256Header \o <<"b", "b">>
DigestC1 == Sha256Header \o <<"c", "1">>
DigestC2 == Sha256Header \o <<"c", "2">>

ContainerImages ==
    {PullSpec(BuildRepo, <<"a", "a">>),
     PullSpec(BuildRepo, <<"b", "b">>),
     PullSpec(BuildRepo, <<>>),
     PullSpec(BuildRepo, <<"A", "A">>),
     PullSpec(BuildRepoPort, <<"a", "a">>),
     PullSpec(BuildRepo \o <<"@", "x">>, <<"a", "a">>)}

\* s.split(sep)[1], for an s that holds sep
SplitSecond(s, sep) ==
    LET i == CHOOSE j \in DOMAIN s :
                 s[j] = sep /\ \A k \in 1..(j - 1) : s[k] # sep
    IN  SplitFirstHead(SubSeq(s, i + 1, Len(s)), sep)

\* re.match(r"^[^:]+@sha256:[0-9a-f]+$", value): $ also matches right
\* before a newline that ends the string
digest_reference_match(value) ==
    \E k \in 1..Len(value) :
        \E e \in {Len(value)} \cup
                 {n \in {Len(value) - 1} : value[Len(value)] = "\n"} :
            /\ \A j \in 1..k : value[j] # ":"
            /\ e >= k + 9
            /\ SubSeq(value, k + 1, k + 8) = <<"@">> \o Sha256Header
            /\ \A j \in (k + 9)..e : value[j] \in HexDigits

\* ComponentModel.is_valid_digest_reference: the error raised, or the value
\* the field is given
is_valid_digest_reference(value) ==
    IF ~digest_reference_match(value)
    THEN [err |-> "ValueError", digest |-> <<>>]
    ELSE [err |-> "ok", digest |-> SplitSecond(value, "@")]

\* an entry of the spec's components, and the two release repositories
ComponentModel(containerImage, rh_registry_repo, tags_) ==
    [containerImage |-> containerImage,
     rh_registry_repo |-> rh_registry_repo,
     tags |-> tags_]

ReleaseRepo1 == <<"registry.redhat.io", "/", "repo1">>
ReleaseRepo2 == <<"registry.redhat.io", "/", "repo2">>

ComponentModels ==
    {ComponentModel(ci, ReleaseRepo1, <<<<"1", ".", "0">>>>) : ci \in ContainerImages}
        \cup {ComponentModel(ci, ReleaseRepo2, <<<<"2", ".", "0">>, TagLatest>>) :
                  ci \in ContainerImages}

SnapshotModels == SeqsUpTo(ComponentModels, MaxComponents)

\* faulty variant: only the first entry is validated
model_validate_error_first(spec) ==
    IF spec # <<>> /\ is_valid_digest_reference(spec[1].containerImage).err # "ok"
    THEN "ValidationError"
    ELSE "ok"

\* SnapshotModel.model_validate_json: every entry is validated
model_validate_error(spec) ==
    IF \E i \in DOMAIN spec :
           is_valid_digest_reference(spec[i].containerImage).err # "ok"
    THEN "ValidationError"
    ELSE "ok"

\* manifests: oras prints one, or exits non-zero
OciManifest    == "application/vnd.oci.image.manifest.v1+json"
DockerManifest == "application/vnd.docker.distribution.manifest.v2+json"
OciIndex       == "application/vnd.oci.image.index.v1+json"
DockerList     == "application/vnd.docker.distribution.manifest.list.v2+json"
DockerV1       == "application/vnd.docker.distribution.manifest.v1+json"

Manifest(mediaType, digests) ==
    [kind |-> "manifest",
     mediaType |-> mediaType,
     manifests |-> [i \in DOMAIN digests |-> [digest |-> digests[i]]]]

NoManifest == [kind |-> "missing", mediaType |-> "", manifests |-> <<>>]

ManifestsOfAA ==
    {NoManifest,
     Manifest(OciManifest, <<>>),
     Manifest(DockerManifest, <<>>),
     Manifest(OciIndex, <<DigestC1, DigestC2>>),
     Manifest(DockerList, <<DigestC2>>),
     Manifest(DockerList, <<>>),
     Manifest(DockerV1, <<>>)}

ManifestsOfBB ==
    {NoManifest,
     Manifest(DockerManifest, <<>>),
     Manifest(OciIndex, <<DigestC2, DigestC1>>)}

Registries ==
    {f \in [{DigestAA, DigestBB} -> ManifestsOfAA \cup ManifestsOfBB] :
        f[DigestAA] \in ManifestsOfAA /\ f[DigestBB] \in ManifestsOfBB}

\* what oras manifest fetch finds for a digest
ManifestOf(digest) ==
    IF digest \in DOMAIN manifests THEN manifests[digest] ELSE NoManifest

\* the value None where an Image or IndexImage is expected
NoImage == [kind |-> "NoneType", digest |-> <<>>, children |-> <<>>]

\* faulty variant: the children are listed last entry first
construct_image_reversed(image_digest, manifest, optimized) ==
    IF manifest.mediaType \in {OciManifest, DockerManifest}
    THEN [err |-> "ok", image |-> Image(image_digest)]
    ELSE [err |-> "ok",
          image |-> IndexImage(image_digest,
                               [i \in DOMAIN manifest.manifests |->
                                    Image(manifest.manifests[
                                        Len(manifest.manifests) + 1 - i].digest)])]

\* construct_image from the manifest on: the exception raised and the value
\* returned. "assert False" raises AssertionError, and is compiled away
\* when Python runs with -O: the function then falls off its end
construct_image(image_digest, manifest, optimized) ==
    IF manifest.mediaType \in {OciManifest, DockerManifest}
    THEN [err |-> "ok", image |-> Image(image_digest)]
    ELSE IF manifest.mediaType \in {OciIndex, DockerList}
    THEN [err |-> "ok",
          image |-> IndexImage(image_digest,
                               [i \in DOMAIN manifest.manifests |->
                                    Image(manifest.manifests[i].digest)])]
    ELSE IF optimized
    THEN [err |-> "ok", image |-> NoImage]
    ELSE [err |-> "AssertionError", image |-> NoImage]

\* get_image_manifest up to its subprocess: the error raised, "ok" when none
get_image_manifest_auth_error(reference_, cfg) ==
    IF get_oci_auth_file(reference_, cfg).ret = "True" THEN "ok" ELSE "ValueError"

ManifestTask(i) == <<"manifest", i>>

TaskReference(i) ==
    make_reference(snapshotSpec[i].rh_registry_repo, taskDigest[i])

\* make_snapshot: the spec file is read and validated, and one make_component
\* task per entry is handed to gather
ParseSnapshotSpec ==
    /\ makePc = "called"
    /\ IF model_validate_error(snapshotSpec) # "ok"
       THEN /\ makePc' = "failed"
            /\ UNCHANGED <<taskPc, taskDigest, taskOut>>
       ELSE /\ makePc' = "gathering"
            /\ taskDigest' = [i \in DOMAIN snapshotSpec |->
                   is_valid_digest_reference(snapshotSpec[i].containerImage).digest]
            /\ taskPc' = [i \in DOMAIN snapshotSpec |-> "created"]
            /\ taskOut' = [i \in DOMAIN snapshotSpec |->
                              [err |-> "none", image |-> NoImage]]
    /\ UNCHANGED <<snapshotSpec, manifests, optimize, fetches, made, scratch,
                   authVars, handlerVars, runVars, tagVars, subVars>>

\* get_image_manifest: the scratch file is created and filled, and oras is
\* started with it; without a credential the task ends here
StartManifestFetch(i) ==
    /\ makePc = "gathering"
    /\ taskPc[i] = "created"
    /\ \E name \in FreeNames :
          LET file == ScratchFile(name, ManifestTask(i))
              err  == get_image_manifest_auth_error(TaskReference(i), config)
          IN  IF err # "ok"
              THEN /\ scratch' = with_exit(scratch \cup {file}, file, err)
                   /\ taskPc' = [taskPc EXCEPT ![i] = "failed"]
                   /\ taskOut' = [taskOut EXCEPT ![i].err = err]
                   /\ UNCHANGED fetches
              ELSE /\ scratch' = scratch \cup {file}
                   /\ taskPc' = [taskPc EXCEPT ![i] = "fetching"]
                   /\ fetches' = Append(fetches, [task |-> i, reference |-> TaskReference(i)])
                   /\ UNCHANGED taskOut
    /\ UNCHANGED <<snapshotSpec, manifests, optimize, makePc, taskDigest, made,
                   authVars, handlerVars, runVars, tagVars, subVars>>

\* oras ends: the scratch file goes, the manifest is parsed and classified
EndManifestFetch(i) ==
    /\ makePc = "gathering"
    /\ taskPc[i] = "fetching"
    /\ LET file     == CHOOSE f \in scratch : f.owner = ManifestTask(i)
           manifest == ManifestOf(taskDigest[i])
           r        == construct_image(taskDigest[i], manifest, optimize)
           out      == IF manifest.kind = "missing"
                       THEN [err |-> "RuntimeError", image |-> NoImage]
                       ELSE r
       IN  /\ scratch' = with_exit(scratch, file, out.err)
           /\ taskOut' = [taskOut EXCEPT ![i] = out]
           /\ taskPc' = [taskPc EXCEPT ![i] =
                             IF out.err = "ok" THEN "done" ELSE "failed"]
    /\ UNCHANGED <<snapshotSpec, manifests, optimize, makePc, taskDigest,
                   fetches, made, authVars, handlerVars, runVars, tagVars, subVars>>

\* gather raises the first exception out of make_snapshot; the event loop
\* then cancels the tasks still pending, which leave their with-blocks
MakeSnapshotRaise ==
    /\ makePc = "gathering"
    /\ gather({taskPc[i] : i \in DOMAIN taskPc}) = "raised"
    /\ makePc' = "failed"
    /\ taskPc' = [i \in DOMAIN taskPc |->
                    IF taskPc[i] \in {"created", "fetching"}
                    THEN "cancelled" ELSE taskPc[i]]
    /\ scratch' = with_exit_all(scratch,
                                {ManifestTask(i) : i \in DOMAIN taskPc},
                                "CancelledError")
    /\ UNCHANGED <<snapshotSpec, manifests, optimize, taskDigest, taskOut,
                   fetches, made, authVars, handlerVars, runVars, tagVars, subVars>>

\* faulty variant: the results come last task first
gather_results_reversed(outs) == [i \in DOMAIN outs |-> outs[Len(outs) + 1 - i]]

\* the list gather returns: the results in the order of the awaitables it
\* was given, not in the order they completed
gather_results(outs) == outs

make_component(repository, image_, tags_) == Component(repository, image_, tags_)

\* gather returns the results in the order of the tasks it was given
MakeSnapshotReturn ==
    /\ makePc = "gathering"
    /\ gather({taskPc[i] : i \in DOMAIN taskPc}) = "returned"
    /\ makePc' = "returned"
    /\ made' = gather_results(
                   [i \in DOMAIN snapshotSpec |->
                       make_component(snapshotSpec[i].rh_registry_repo,
                                      taskOut[i].image,
                                      snapshotSpec[i].tags)])
    /\ UNCHANGED <<snapshotSpec, manifests, optimize, taskPc, taskDigest,
                   taskOut, fetches, scratch, authVars, handlerVars, runVars,
                   tagVars, subVars>>

AuthIdle ==
    /\ reference = <<>>
    /\ config = NoFile
    /\ fp = <<>>
    /\ authRet = "idle"

InitHandler ==
    /\ component \in Components
    /\ image = component.image
    /\ sbom \in Documents
    /\ results = <<>>
    /\ sboms = <<sbom>>
    /\ AuthIdle
    /\ RunIdle
    /\ scratch = {}
    /\ MakeIdle
    /\ TagsIdle
    /\ SubIdle

NextHandler == UpdateSbom

SpecHandler == InitHandler /\ [][NextHandler]_vars

HandlerIdle ==
    /\ component = None
    /\ image = None
    /\ sbom = None
    /\ results = <<>>
    /\ sboms = <<>>

InitAuth ==
    /\ reference \in References
    /\ config \in Configs
    /\ fp = <<>>
    /\ authRet = "pending"
    /\ HandlerIdle
    /\ RunIdle
    /\ scratch = {}
    /\ MakeIdle
    /\ TagsIdle
    /\ SubIdle

NextAuth == GetOciAuthFile

SpecAuth == InitAuth /\ [][NextAuth]_vars

InitSnapshot ==
    /\ snapshotSpec \in SnapshotModels
    /\ manifests \in Registries
    /\ optimize \in BOOLEAN
    /\ config \in RunConfigs
    /\ makePc = "called"
    /\ taskPc = <<>>
    /\ taskDigest = <<>>
    /\ taskOut = <<>>
    /\ fetches = <<>>
    /\ made = <<>>
    /\ scratch = {}
    /\ reference = <<>>
    /\ fp = <<>>
    /\ authRet = "idle"
    /\ HandlerIdle
    /\ RunIdle
    /\ TagsIdle
    /\ SubIdle

NextSnapshot ==
    \/ ParseSnapshotSpec
    \/ \E i \in DOMAIN taskPc : StartManifestFetch(i)
    \/ \E i \in DOMAIN taskPc : EndManifestFetch(i)
    \/ MakeSnapshotRaise
    \/ MakeSnapshotReturn

SpecSnapshot == InitSnapshot /\ [][NextSnapshot]_vars

\* the two operations that fetch through a scratch credential file: a
\* make_snapshot (manifest fetches) or an update_sboms (SBOM downloads)
InitFetches == InitSnapshot \/ InitRun

NextFetches == NextSnapshot \/ NextRun

SpecFetches == InitFetches /\ [][NextFetches]_vars

(***************************************************************************)
(* ---------------------- reading Component.unique_tag ------------------- *)
(* A component is built with a list of tags and its unique_tag property is *)
(* read.                                                                   *)
(***************************************************************************)
MaxTagList == 3   \* most tags of the component whose unique_tag is read

TagRhel       == <<"r", "h", "e", "l", "-", "v", "8", ".", "4", ".", "1", "-",
                   "2", "0", "2", "3", "0", "1", "0", "1">>
TagSevenDigit == <<"8", ".", "4", "-", "2", "0", "2", "3", "0", "1", "0">>
TagSource     == TagDated \o <<"-", "s", "o", "u", "r", "c", "e">>
TagNinth      == <<"v", "9", ".", "0", "-", "2", "0", "2", "3", "0", "1", "0", "1", "5">>
TagInner      == <<"x">> \o TagDated

\* the tags a snapshot spec may list for a component
ListedTags ==
    {TagLatest, TagDated, TagRhel, TagSevenDigit, TagSource, TagNinth, TagInner}

InitUniqueTag ==
    /\ tagList \in SeqsUpTo(ListedTags, MaxTagList)
    /\ uniqueTag = NotRead
    /\ AuthIdle
    /\ HandlerIdle
    /\ RunIdle
    /\ scratch = {}
    /\ MakeIdle
    /\ SubIdle

\* component.unique_tag
ReadUniqueTag ==
    /\ ~uniqueTag.read
    /\ uniqueTag' =
           [read  |-> TRUE,
            value |-> unique_tag(Component(ReleaseRepository, Image(IndexDigest), tagList))]
    /\ UNCHANGED <<tagList, authVars, handlerVars, runVars, scratch, makeVars,
                   subVars>>

NextUniqueTag == ReadUniqueTag

SpecUniqueTag == InitUniqueTag /\ [][NextUniqueTag]_vars

(***************************************************************************)
(* ------------------------ run_async_subprocess ------------------------- *)
(* The call spawns the command, awaits its exit, and spawns it again while *)
(* it exits non-zero and attempts are left.  What a process exits with is  *)
(* the environment's choice.                                               *)
(***************************************************************************)
MaxRetries == 2   \* largest retry_times a call is made with

RetryTimes == (0 - 1)..MaxRetries

\* proc.returncode after communicate(): 0, or a non-zero code (negative when
\* the process was killed by a signal)
ExitCodes == {0, 1, 0 - 9}

\* (stdout, stderr) as captured
Outputs == {<<"manifest", "">>, <<"", "unauthorized">>, <<"", "timeout">>}

Exit(code, output) == [code |-> code, output |-> output]

\* faulty variant: the retries are counted without the first attempt
attempts_allowed_without_first(n) == n

\* range(1 + retry_times): the number of attempts the loop allows
attempts_allowed(n) == 1 + n

ReturnOf(code, output) == [err |-> "ok", code |-> code, output |-> output]

RaiseOf(err) == [err |-> err, code |-> 0, output |-> <<>>]

\* the last process has exited
LastExited == attempts # <<>> /\ attempts[Len(attempts)] # None

InitSubprocess ==
    /\ retry_times \in RetryTimes
    /\ attempts = <<>>
    /\ subPc = "called"
    /\ subRet = NoReturn
    /\ AuthIdle
    /\ HandlerIdle
    /\ RunIdle
    /\ scratch = {}
    /\ MakeIdle
    /\ TagsIdle

\* the check on entry
CheckRetryTimes ==
    /\ subPc = "called"
    /\ IF retry_times < 0
       THEN subPc' = "raised" /\ subRet' = RaiseOf("ValueError")
       ELSE subPc' = "loop" /\ UNCHANGED subRet
    /\ UNCHANGED <<retry_times, attempts, authVars, handlerVars, runVars,
                   scratch, makeVars, tagVars>>

\* the head of the loop: the next iteration spawns the command, and when no
\* iteration is left the function returns what the last one bound
LoopHead ==
    /\ subPc = "loop"
    /\ IF Len(attempts) < attempts_allowed(retry_times)
       THEN /\ attempts' = Append(attempts, None)
            /\ subPc' = "communicate"
            /\ UNCHANGED subRet
       ELSE /\ UNCHANGED attempts
            /\ IF attempts = <<>>
               THEN subPc' = "raised" /\ subRet' = RaiseOf("UnboundLocalError")
               ELSE /\ subPc' = "returned"
                    /\ subRet' = ReturnOf(Val(attempts[Len(attempts)]).code,
                                          Val(attempts[Len(attempts)]).output)
    /\ UNCHANGED <<retry_times, authVars, handlerVars, runVars, scratch,
                   makeVars, tagVars>>

\* proc.communicate() returns: the process has exited; exit code 0 returns
ProcessExits ==
    /\ subPc = "communicate"
    /\ \E code \in ExitCodes : \E output \in Outputs :
          /\ attempts' = [attempts EXCEPT ![Len(attempts)] = Some(Exit(code, output))]
          /\ IF code = 0
             THEN subPc' = "returned" /\ subRet' = ReturnOf(code, output)
             ELSE subPc' = "loop" /\ UNCHANGED subRet
    /\ UNCHANGED <<retry_times, authVars, handlerVars, runVars, scratch,
                   makeVars, tagVars>>

NextSubprocess == CheckRetryTimes \/ LoopHead \/ ProcessExits

SpecSubprocess == InitSubprocess /\ [][NextSubprocess]_vars

(***************************************************************************)
(* Claims about the credential scope resolver (checked under SpecAuth).    *)
(***************************************************************************)
\* the reference without its digest suffix, and the store it is looked up in
RefPath   == SubSeq(reference, 1, Len(reference) - Len(Digest0))
StoreKeys == DOMAIN ConfigAuths(config.json)

\* the path-segment prefixes of a path: the path itself, and the path cut
\* right before one of its '/' characters
SegmentPrefixes(path) ==
    {SubSeq(path, 1, i) : i \in {j \in 0..Len(path) :
                                    j = Len(path) \/ path[j + 1] = "/"}}

\* the keys of the store that are path-segment prefixes of the reference
MatchingKeys == SegmentPrefixes(RefPath) \cap StoreKeys

LongestMatch ==
    CHOOSE k \in MatchingKeys : \A m \in MatchingKeys : Len(m) <= Len(k)

\* the registry: the path-segment prefix holding no '/'
RegistryOf(path) == CHOOSE p \in SegmentPrefixes(path) : "/" \notin Range(p)

AuthDone == authRet # "pending" /\ config.is_file

\* C1: when some path-segment prefix of the reference is a key of the store,
\* get_oci_auth_file returns True and writes exactly
\* {"auths": {registry: c}}, c being the store's value at the LONGEST such
\* prefix; keys that are not path-segment prefixes are never selected.
C1_LongestSegmentPrefix ==
    (AuthDone /\ MatchingKeys # {}) =>
        /\ authRet = "True"
        /\ fp = <<[auths |->
                    (RegistryOf(RefPath) :> ConfigAuths(config.json)[LongestMatch])]>>

\* a found credential where two keys of the store match, below a registry
C1_Witness ==
    /\ AuthDone /\ authRet = "True"
    /\ Cardinality(MatchingKeys) >= 2
    /\ RegistryOf(RefPath) # <<>>
    /\ <<>> \notin StoreKeys

\* C2: when no path-segment prefix of the reference (the bare registry
\* included) is a key of an existing store, get_oci_auth_file writes
\* {"auths": {}} and returns False; it does not raise.
C2_NotFoundIsEmptyAndFalse ==
    (AuthDone /\ MatchingKeys = {}) =>
        /\ authRet = "False"
        /\ fp = <<[auths |-> <<>>]>>

\* not found although the store holds a string prefix of the reference
C2_Witness ==
    /\ AuthDone /\ authRet = "False"
    /\ \E k \in StoreKeys :
          /\ 0 < Len(k) /\ Len(k) < Len(RefPath)
          /\ k = SubSeq(RefPath, 1, Len(k))

(***************************************************************************)
(* Claims about the SPDX-2.3 handler (checked under SpecHandler).          *)
(***************************************************************************)
Loaded       == sboms[1]          \* the document before the first call
AfterCall(n) == sboms[n + 1]      \* the document after call n
Calls        == DOMAIN results

IsIndexCall == image.kind = "IndexImage"
IsLeafCall  == image.kind = "Image"

\* the packages whose first SHA256 checksum is the hex of a digest
PackagesWithDigest(doc, digest) ==
    {i \in DOMAIN doc.packages :
        /\ doc.packages[i].checksums # None
        /\ \E c \in DOMAIN Val(doc.packages[i].checksums) :
              /\ Val(doc.packages[i].checksums)[c] =
                     Checksum("SHA256", without_sha_header(digest))
              /\ \A b \in 1..(c - 1) :
                     Val(doc.packages[i].checksums)[b].algorithm # "SHA256"}

\* the package located for a digest: the first of them
LocatedPackage(doc, digest) ==
    CHOOSE i \in PackagesWithDigest(doc, digest) :
        \A j \in PackagesWithDigest(doc, digest) : i <= j

ChildDigests == {image.children[i].digest : i \in DOMAIN image.children}

\* an external reference is the purl of (repository, digest, tag) with the
\* given arch qualifier (None: no arch qualifier)
IsPurlRefOf(ref, repository, digest, tag, arch) ==
    LET purl == PurlFromString(ref.referenceLocator)
    IN  /\ ref.referenceCategory = "PACKAGE-MANAGER"
        /\ ref.referenceType = "purl"
        /\ purl.type = "oci"
        /\ purl.version = Some(digest)
        /\ "repository_url" \in DOMAIN purl.qualifiers
        /\ purl.qualifiers["repository_url"] = repository
        /\ "tag" \in DOMAIN purl.qualifiers
        /\ purl.qualifiers["tag"] = tag
        /\ IF arch = None THEN "arch" \notin DOMAIN purl.qualifiers
           ELSE /\ "arch" \in DOMAIN purl.qualifiers
                /\ purl.qualifiers["arch"] = Val(arch)

\* the references are one purl per tag of the component, in listed order
OneRefPerTag(refs, digest, arch) ==
    /\ Len(refs) = Len(component.tags)
    /\ \A t \in DOMAIN component.tags :
          IsPurlRefOf(refs[t], component.repository, digest, component.tags[t], arch)

\* C3: when spdxVersion is not "SPDX-2.3", update_sbom (index and leaf
\* variant) fails with the version-mismatch error and leaves the document
\* exactly as it was.
C3_VersionMismatchLeavesDocument ==
    (Loaded.spdxVersion # Some("SPDX-2.3")) =>
        \A n \in Calls : results[n] = "ValueError" /\ AfterCall(n) = Loaded

\* an index document of another version that holds the index package
C3_Witness ==
    /\ Calls # {} /\ IsIndexCall
    /\ Loaded.spdxVersion = Some("SPDX-2.2")
    /\ PackagesWithDigest(Loaded, image.digest) # {}
    /\ results[1] = "ValueError"

\* C4: after a successful index-variant update for a component with k
\* tags, the package whose SHA-256 checksum is the index digest has exactly
\* k external references, one per tag in listed order, each a purl of the
\* index digest and the component repository with that tag and no arch.
C4_IndexPackageOneRefPerTag ==
    \A n \in Calls :
        (IsIndexCall /\ results[n] = "ok") =>
            OneRefPerTag(
                AfterCall(n).packages[LocatedPackage(AfterCall(n), image.digest)]
                    .externalRefs,
                image.digest, None)

\* the arch qualifier a package carried when loaded
LoadedArch(i) ==
    LET withArch == {r \in DOMAIN Loaded.packages[i].externalRefs :
                        get_purl_arch(Loaded.packages[i].externalRefs[r]
                                          .referenceLocator) # None}
    IN  IF withArch = {} THEN None
        ELSE get_purl_arch(
                 Loaded.packages[i].externalRefs[
                     CHOOSE r \in withArch : \A q \in withArch : r <= q]
                     .referenceLocator)

\* C5: after a successful index-variant update, every package whose
\* SHA-256 checksum is a child's digest has exactly k external references,
\* one per tag, each a purl of that child's digest with the arch qualifier
\* the package carried before the update.
C5_ChildPackagesOneRefPerTag ==
    \A n \in Calls :
        (IsIndexCall /\ results[n] = "ok") =>
            \A d \in ChildDigests :
                \A i \in PackagesWithDigest(AfterCall(n), d) :
                    OneRefPerTag(AfterCall(n).packages[i].externalRefs,
                                 d, LoadedArch(i))

\* C6: after a successful leaf-image update the document is named
\* "<repository>@<digest>" and the package whose SHA-256 checksum is the
\* image digest has exactly k external references, one per tag, each a purl
\* of image.digest and the repository, with no arch qualifier.
C6_LeafPackageOneRefPerTag ==
    \A n \in Calls :
        (IsLeafCall /\ results[n] = "ok") =>
            /\ AfterCall(n).name = component.repository \o <<"@">> \o image.digest
            /\ OneRefPerTag(
                   AfterCall(n).packages[LocatedPackage(AfterCall(n), image.digest)]
                       .externalRefs,
                   image.digest, None)

\* C7: update_sbom is idempotent: after a call that succeeded, a further
\* call with the same component and image succeeds too and leaves the
\* document as the first left it.
C7_Idempotent ==
    \A n \in Calls :
        (results[n] = "ok" /\ n + 1 \in Calls) =>
            results[n + 1] = "ok" /\ AfterCall(n + 1) = AfterCall(n)

\* two successful index-variant calls, the first of which rewrote the index
\* package and a child's package
C7_Witness ==
    /\ Len(results) >= 2 /\ IsIndexCall
    /\ results[1] = "ok" /\ results[2] = "ok"
    /\ AfterCall(1) # Loaded
    /\ \E d \in ChildDigests \ {image.digest} :
          \E i \in PackagesWithDigest(Loaded, d) :
              AfterCall(1).packages[i].externalRefs # Loaded.packages[i].externalRefs

\* the same for the leaf variant
C7_WitnessLeaf ==
    /\ Len(results) >= 2 /\ IsLeafCall
    /\ results[1] = "ok" /\ results[2] = "ok"
    /\ AfterCall(1).packages # Loaded.packages

\* the document call n started from
BeforeCall(n) == sboms[n]

\* a package with no "checksums" key or with no SHA256 entry among them
HasNoSha256(package) ==
    \/ package.checksums = None
    \/ \A c \in DOMAIN Val(package.checksums) :
          Val(package.checksums)[c].algorithm # "SHA256"

\* every reference of the package names the component's repository
RewrittenForComponent(package) ==
    /\ package.externalRefs # <<>>
    /\ \A r \in DOMAIN package.externalRefs :
          LET purl == PurlFromString(package.externalRefs[r].referenceLocator)
          IN  /\ "repository_url" \in DOMAIN purl.qualifiers
              /\ purl.qualifiers["repository_url"] = component.repository

\* C17: on an SPDX-2.3 document the handler fails with the package-not-found
\* error exactly when no package has, as its first SHA256 checksum entry, the
\* target digest without its sha256: prefix; when the call succeeds the first
\* such package in document order is the one rewritten, a later one that is
\* not a child's package stays as it was, and a package without checksums or
\* without a SHA256 checksum is never touched.
C17_PackageNotFoundIffNoMatch ==
    \A n \in Calls :
        (BeforeCall(n).spdxVersion = Some("SPDX-2.3")) =>
            LET matching == PackagesWithDigest(BeforeCall(n), image.digest)
            IN  /\ (results[n] = "SBOMError") <=> (matching = {})
                /\ \A j \in DOMAIN BeforeCall(n).packages :
                      HasNoSha256(BeforeCall(n).packages[j]) =>
                          /\ j \notin matching
                          /\ AfterCall(n).packages[j] = BeforeCall(n).packages[j]
                /\ (results[n] = "ok") =>
                      LET first == LocatedPackage(BeforeCall(n), image.digest)
                      IN  /\ \A j \in matching : first <= j
                          /\ RewrittenForComponent(AfterCall(n).packages[first])
                          /\ \A j \in matching \ {first} :
                                (image.digest \notin ChildDigests) =>
                                    AfterCall(n).packages[j] =
                                        BeforeCall(n).packages[j]

\* a successful first call on a document with two packages of the target
\* digest: the first was rewritten and the second was not
C17_Witness ==
    /\ Calls # {} /\ results[1] = "ok"
    /\ Cardinality(PackagesWithDigest(Loaded, image.digest)) = 2
    /\ image.digest \notin ChildDigests
    /\ AfterCall(1).packages[1] # Loaded.packages[1]
    /\ AfterCall(1).packages[2] = Loaded.packages[2]

\* a call that failed because the only SHA256 entry equal to the digest comes
\* after another SHA256 entry
C17_WitnessNotFirstEntry ==
    /\ Calls # {} /\ results[1] = "SBOMError"
    /\ \E j \in DOMAIN Loaded.packages :
          /\ Loaded.packages[j].checksums # None
          /\ \E c \in DOMAIN Val(Loaded.packages[j].checksums) :
                Val(Loaded.packages[j].checksums)[c] =
                    Checksum("SHA256", without_sha_header(image.digest))


\* the arguments construct_purl is given: a repository whose last segment
\* is not empty, a digest, and an arch and a tag that are absent or not empty
PurlRepositories == {ReleaseRepository, BuildRepository, <<"img">>}
PurlArchs        == {None, Some(ArchAmd64), Some(ArchArm)}
PurlTags         == {None, Some(TagLatest), Some(TagDated)}

\* the part of a repository after its last '/'
AfterLastSlash(repository) ==
    LET slashes == {k \in DOMAIN repository : repository[k] = "/"}
    IN  IF slashes = {} THEN repository
        ELSE SubSeq(repository,
                    (CHOOSE k \in slashes : \A m \in slashes : m <= k) + 1,
                    Len(repository))

\* the purl string parses to the purl of these parts
IsOciPurl(str, repository, digest, arch, tag) ==
    LET purl == PurlFromString(str)
    IN  /\ str.scheme = "pkg"
        /\ purl.type = "oci"
        /\ purl.name = AfterLastSlash(repository)
        /\ purl.version = Some(digest)
        /\ DOMAIN purl.qualifiers =
               {"repository_url"}
                   \cup (IF arch = None THEN {} ELSE {"arch"})
                   \cup (IF tag = None THEN {} ELSE {"tag"})
        /\ purl.qualifiers["repository_url"] = repository
        /\ arch # None => purl.qualifiers["arch"] = Val(arch)
        /\ tag # None => purl.qualifiers["tag"] = Val(tag)

\* the packages call n changed
ChangedBy(n) ==
    {j \in DOMAIN AfterCall(n).packages :
        AfterCall(n).packages[j] # BeforeCall(n).packages[j]}

\* C19: construct_purl(repository, digest, arch, tag) is a purl of type oci
\* named by the last '/'-separated segment of the repository, with the digest
\* as version and exactly the qualifiers repository_url, arch when given and
\* tag when given; and every reference a handler call writes is
\* {PACKAGE-MANAGER, purl, <such a purl of the component's repository>}.
C19_PurlContract ==
    /\ \A repository \in PurlRepositories : \A digest \in Digests :
          \A arch \in PurlArchs : \A tag \in PurlTags :
              IsOciPurl(construct_purl(repository, digest, arch, tag),
                        repository, digest, arch, tag)
    /\ \A n \in Calls : \A j \in ChangedBy(n) :
          \A r \in DOMAIN AfterCall(n).packages[j].externalRefs :
              LET ref == AfterCall(n).packages[j].externalRefs[r]
              IN  /\ DOMAIN ref =
                         {"referenceCategory", "referenceType", "referenceLocator"}
                  /\ ref.referenceCategory = "PACKAGE-MANAGER"
                  /\ ref.referenceType = "purl"
                  /\ \E digest \in Digests : \E arch \in PurlArchs :
                        IsOciPurl(ref.referenceLocator, component.repository,
                                  digest, arch, unique_tag(component))

\* an index call that wrote references with a tag, one of them with an arch
\* that is percent-encoded in the string
C19_Witness ==
    /\ Calls # {} /\ IsIndexCall /\ results[1] = "ok"
    /\ unique_tag(component) # None
    /\ \E j \in ChangedBy(1) :
          \E r \in DOMAIN AfterCall(1).packages[j].externalRefs :
              LET str == AfterCall(1).packages[j].externalRefs[r].referenceLocator
              IN  /\ "arch" \in DOMAIN str.qualifiers
                  /\ str.qualifiers["arch"] # ArchArm
                  /\ PurlFromString(str).qualifiers["arch"] = ArchArm

\* the packages of a child image: those whose first SHA256 checksum is the
\* digest of a child of the index
ChildPackages(doc) ==
    UNION {PackagesWithDigest(doc, d) : d \in ChildDigests}

\* the references of a package whose purl version is the index digest
IndexRefs(package) ==
    {r \in DOMAIN package.externalRefs :
        PurlFromString(package.externalRefs[r].referenceLocator).version =
            Some(image.digest)}

\* C20: after a successful index-variant call, the arch in the rewritten
\* references of a child's package is the arch of the reference that package
\* carried whose purl version is the index digest, at whatever position of
\* externalRefs that reference was.
C20_ArchFromIndexDigestRef ==
    \A n \in Calls :
        (IsIndexCall /\ results[n] = "ok") =>
            \A j \in ChildPackages(BeforeCall(n)) :
                \A r \in IndexRefs(BeforeCall(n).packages[j]) :
                    (Cardinality(IndexRefs(BeforeCall(n).packages[j])) = 1) =>
                        \E w \in DOMAIN AfterCall(n).packages[j].externalRefs :
                            /\ get_purl_arch(AfterCall(n).packages[j]
                                   .externalRefs[w].referenceLocator) # None
                            /\ get_purl_arch(AfterCall(n).packages[j]
                                   .externalRefs[w].referenceLocator) =
                               get_purl_arch(BeforeCall(n).packages[j]
                                   .externalRefs[r].referenceLocator)

\* the packages a successful call on the document may rewrite: the located
\* package of the target digest and, for an index, the children's packages
MayRewrite(doc) ==
    {LocatedPackage(doc, image.digest)} \cup ChildPackages(doc)

\* the top-level fields of a document other than its name and its packages
OtherFields(doc) == [k \in DOMAIN doc \ {"name", "packages"} |-> doc[k]]

\* the fields of a package other than its externalRefs
PackageRest(package) == [k \in DOMAIN package \ {"externalRefs"} |-> package[k]]

\* C21: a successful update_sbom changes nothing but the document's name and
\* the externalRefs of the located package and (index variant) of the
\* children's packages: every other package is identical, every package keeps
\* its checksums and other fields, the packages keep their number and order,
\* and every other top-level field is unchanged.
C21_SuccessChangesOnlyNameAndRefs ==
    \A n \in Calls :
        (results[n] = "ok") =>
            /\ OtherFields(AfterCall(n)) = OtherFields(BeforeCall(n))
            /\ Len(AfterCall(n).packages) = Len(BeforeCall(n).packages)
            /\ \A j \in DOMAIN BeforeCall(n).packages :
                  /\ PackageRest(AfterCall(n).packages[j]) =
                         PackageRest(BeforeCall(n).packages[j])
                  /\ j \notin MayRewrite(BeforeCall(n)) =>
                         AfterCall(n).packages[j] = BeforeCall(n).packages[j]

\* a successful index call that renamed the document and rewrote the index
\* package and a child's package
C21_Witness ==
    /\ Calls # {} /\ IsIndexCall /\ results[1] = "ok"
    /\ AfterCall(1).name # Loaded.name
    /\ \E j \in ChildPackages(Loaded) \ {LocatedPackage(Loaded, image.digest)} :
          AfterCall(1).packages[j].externalRefs # Loaded.packages[j].externalRefs
    /\ AfterCall(1).packages[LocatedPackage(Loaded, image.digest)].externalRefs
           # Loaded.packages[LocatedPackage(Loaded, image.digest)].externalRefs

\* a successful leaf call on a document with a package of another digest
\* that carries references
C21_WitnessLeaf ==
    /\ Calls # {} /\ IsLeafCall /\ results[1] = "ok"
    /\ \E j \in DOMAIN Loaded.packages :
          /\ j \notin MayRewrite(Loaded)
          /\ Loaded.packages[j].externalRefs # <<>>
          /\ AfterCall(1).packages[j] = Loaded.packages[j]

\* C25: when a call fails with the package-not-found error, the document
\* after the call is the document before it with the name overwritten by
\* "<repository>@<digest>": no package was modified and nothing else differs.
C25_NotFoundOverwritesOnlyName ==
    \A n \in Calls :
        (results[n] = "SBOMError") =>
            /\ AfterCall(n).name =
                   component.repository \o <<"@">> \o image.digest
            /\ AfterCall(n).packages = BeforeCall(n).packages
            /\ \A k \in DOMAIN BeforeCall(n) \ {"name"} :
                   AfterCall(n)[k] = BeforeCall(n)[k]
            /\ DOMAIN AfterCall(n) = DOMAIN BeforeCall(n)

\* a first call that failed with package-not-found on a document whose
\* packages carry references, and left it renamed
C25_Witness ==
    /\ Calls # {} /\ results[1] = "SBOMError"
    /\ AfterCall(1).name # Loaded.name
    /\ \E j \in DOMAIN Loaded.packages : Loaded.packages[j].externalRefs # <<>>

\* the same for the index variant, with a package of a child's digest that
\* the call never reached
C25_WitnessIndex ==
    /\ Calls # {} /\ IsIndexCall /\ results[1] = "SBOMError"
    /\ AfterCall(1).name # Loaded.name
    /\ \E j \in ChildPackages(Loaded) : Len(Loaded.packages[j].externalRefs) = 2

(***************************************************************************)
(* ------------------- claims about the orchestrator --------------------- *)
(***************************************************************************)
Units == DOMAIN unitPc

UnitRepository(u) == snapshot[u[1]].repository

\* what the unit's download left in its file, when the download succeeded
Downloaded(u) == remote[UnitImage(u).digest]

FetchSucceeded(u) ==
    fetch_sbom_error(make_reference(UnitRepository(u), UnitImage(u).digest),
                     config, Downloaded(u)) = "ok"

UnitEnded(u) == unitPc[u] \in {"done", "failed"}

IsSpdx23(doc) == doc.spdxVersion = Some("SPDX-2.3")

IsCycloneDx(doc) == doc.bomFormat = Some("CycloneDX")

\* C8: a unit whose loaded document is not SPDX-2.3 (a CycloneDX document
\* with any specVersion or none, or a document of no known format) ends in
\* the unsupported-format error, never in success with the document written
\* out as it was; and choosing a handler for a CycloneDX document raises
\* whatever its specVersion.
C8_NonSpdxIsUnsupportedFailure ==
    \A u \in Units :
        (UnitEnded(u) /\ FetchSucceeded(u) /\ ~IsSpdx23(Downloaded(u).doc)) =>
            /\ unitPc[u] = "failed"
            /\ unitErr[u] = "SBOMError"
            /\ IsCycloneDx(Downloaded(u).doc) =>
                   get_handler(Downloaded(u).doc) = "NotImplementedError"

\* C9: a unit's failure never keeps another unit of the run from running to
\* its own end: no unit is cancelled, and once the run has ended every unit
\* has ended (returned or failed on its own).
C9_NoFirstFailureCancellation ==
    /\ \A u \in Units : unitPc[u] # "cancelled"
    /\ runPc \in {"succeeded", "failed"} => \A u \in Units : UnitEnded(u)

\* C10: update_sboms returns only when every unit returned, and raises only
\* when some unit failed; so, whatever the order in which the units end, its
\* outcome is failure exactly when at least one unit failed.
C10_FailureIffSomeUnitFailed ==
    /\ runPc = "succeeded" => \A u \in Units : unitPc[u] = "done"
    /\ runPc = "failed" => \E u \in Units : unitPc[u] = "failed"
    /\ runPc \in {"succeeded", "failed"} =>
           (runPc = "failed" <=> \E u \in Units : unitPc[u] = "failed")

\* a run of several components that failed although one unit had returned
C10_Witness ==
    /\ runPc = "failed"
    /\ Len(snapshot) >= 2
    /\ \E u, v \in Units :
           /\ u[1] # v[1]
           /\ unitPc[u] = "failed"
           /\ unitPc[v] = "done"

\* a run of an index and a leaf component in which every unit returned
C10_WitnessSuccess ==
    /\ runPc = "succeeded"
    /\ Cardinality(Units) = MaxUnits
    /\ \E c \in DOMAIN snapshot : IsIndexComponent(c)

(***************************************************************************)
(* Claims about make_snapshot (checked under SpecSnapshot).                *)
(***************************************************************************)
Tasks == DOMAIN taskPc

Returned(i) == taskPc[i] = "done"

FetchesOf(i) == {n \in DOMAIN fetches : fetches[n].task = i}

SingleManifestTypes == {OciManifest, DockerManifest}
IndexTypes          == {OciIndex, DockerList}

\* C11: a construct_image that returned fetched exactly one manifest, that
\* of repository@digest; for a single-manifest media type it returned the
\* leaf Image(digest), for an index media type IndexImage(digest, children)
\* with one leaf Image per entry of "manifests", in order, with the entry's
\* digest; and no other manifest is ever fetched.
C11_ClassifiesByMediaType ==
    /\ \A n \in DOMAIN fetches :
           /\ fetches[n].task \in Tasks
           /\ fetches[n].reference =
                  make_reference(snapshotSpec[fetches[n].task].rh_registry_repo,
                                 taskDigest[fetches[n].task])
    /\ \A i \in Tasks : Cardinality(FetchesOf(i)) <= 1
    /\ \A i \in Tasks :
           LET m   == ManifestOf(taskDigest[i])
               img == taskOut[i].image
           IN  /\ Returned(i) => Cardinality(FetchesOf(i)) = 1
               /\ (Returned(i) /\ m.mediaType \in SingleManifestTypes) =>
                      img = Image(taskDigest[i])
               /\ (Returned(i) /\ m.mediaType \in IndexTypes) =>
                      /\ img.kind = "IndexImage"
                      /\ img.digest = taskDigest[i]
                      /\ Len(img.children) = Len(m.manifests)
                      /\ \A j \in DOMAIN m.manifests :
                             img.children[j] = Image(m.manifests[j].digest)

\* an index of two children and a single manifest, both resolved
C11_Witness ==
    \E i, k \in Tasks :
        /\ Returned(i) /\ Returned(k)
        /\ ManifestOf(taskDigest[i]).mediaType \in IndexTypes
        /\ Len(taskOut[i].image.children) = 2
        /\ ManifestOf(taskDigest[k]).mediaType \in SingleManifestTypes
        /\ taskOut[k].image.kind = "Image"

\* C24: every IndexImage the manifest resolver produces, for a manifest of
\* an index or manifest-list media type, has at least one child.
C24_IndexImageHasChildren ==
    \A i \in Tasks :
        (Returned(i) /\ taskOut[i].image.kind = "IndexImage") =>
            taskOut[i].image.children # <<>>

\* the task fetched a manifest and has ended
Classified(i) ==
    /\ taskPc[i] \in {"done", "failed"}
    /\ FetchesOf(i) # {}
    /\ ManifestOf(taskDigest[i]).kind = "manifest"

RecognizedTypes == SingleManifestTypes \cup IndexTypes

\* C12: a construct_image whose manifest has a mediaType that is none of
\* the four recognized ones ends in an error: it returns nothing, and no
\* snapshot is returned that holds (or silently lacks) its component.
C12_UnsupportedMediaTypeIsFatal ==
    \A i \in Tasks :
        (Classified(i) /\ ManifestOf(taskDigest[i]).mediaType \notin RecognizedTypes) =>
            /\ taskPc[i] = "failed"
            /\ taskOut[i].err # "ok"
            /\ makePc # "returned"

\* the entries whose containerImage does not match the pattern
InvalidEntries ==
    {i \in DOMAIN snapshotSpec :
        ~digest_reference_match(snapshotSpec[i].containerImage)}

\* C13: when some entry's containerImage does not match the pattern,
\* make_snapshot fails, and no task, no scratch file and no manifest fetch
\* exists at any time, for the valid entries either.
C13_ValidationBeforeAnyFetch ==
    InvalidEntries # {} =>
        /\ fetches = <<>>
        /\ taskPc = <<>>
        /\ scratch = {}
        /\ makePc \in {"called", "failed"}

\* make_snapshot has failed on a spec with a valid and an invalid entry
C13_Witness ==
    /\ makePc = "failed"
    /\ InvalidEntries # {}
    /\ DOMAIN snapshotSpec \ InvalidEntries # {}

(***************************************************************************)
(* Claims about the scratch credential files (checked under SpecFetches).  *)
(***************************************************************************)
\* the fetches in flight: oras or cosign is running for them
InFlight ==
    {ManifestTask(i) : i \in {j \in DOMAIN taskPc : taskPc[j] = "fetching"}}
        \cup {SbomTask(u) : u \in {v \in DOMAIN unitPc : unitPc[v] = "fetching"}}

\* C14: a scratch credential file exists only while the fetch that created
\* it is in flight: every file belongs to one fetch in flight, every fetch
\* in flight has one file that no other fetch uses, and no file is left
\* when its fetch has ended, whether it returned, found no credential,
\* could not read the credential store, saw the tool fail or was cancelled.
C14_ScratchFileScopedToFetch ==
    /\ \A f \in scratch : f.owner \in InFlight
    /\ \A o \in InFlight : Cardinality({f \in scratch : f.owner = o}) = 1
    /\ \A f, g \in scratch : f.name = g.name => f = g
    /\ InFlight = {} => scratch = {}

\* two downloads in flight, each with its file, after a third fetch failed
C14_Witness ==
    /\ Cardinality(scratch) = 2
    /\ \E u \in DOMAIN unitPc : unitPc[u] = "failed"

\* two manifest fetches in flight
C14_WitnessManifest ==
    /\ Cardinality(scratch) = 2
    /\ \A i \in DOMAIN taskPc : taskPc[i] = "fetching"
    /\ DOMAIN taskPc # {}

(***************************************************************************)
(* Claims about the files written (checked under SpecRun).                 *)
(***************************************************************************)
UnitDestination(u) == DestinationPath(UnitImage(u).digest)

\* C15: when every unit of a run over SPDX-2.3 documents succeeded, the
\* files written are exactly <destination>/<digest> for the digest of each
\* unit (the image of each component, and each child of an index), and each
\* holds that unit's rewritten document.
C15_OneDocumentPerDigest ==
    (runPc = "succeeded" /\ \A u \in Units : IsSpdx23(Downloaded(u).doc)) =>
        /\ DOMAIN files = {UnitDestination(u) : u \in Units}
        /\ \A u \in Units :
               /\ files[UnitDestination(u)].kind = "object"
               /\ files[UnitDestination(u)].doc.name =
                      make_reference(UnitRepository(u), UnitImage(u).digest)

\* C22: during a run no two units write the same file: every path written
\* is written by one unit only, also when two components of the snapshot, or
\* an index and its child, have the same digest.
C22_NoTwoUnitsWriteOnePath ==
    \A w1 \in writes : \A w2 \in writes :
        (w1.path = w2.path) => (w1.unit = w2.unit)

(***************************************************************************)
(* Claims about the snapshot returned (checked under SpecSnapshot).        *)
(***************************************************************************)
\* the part of a string after its first '@'
AfterAt(str) ==
    LET i == CHOOSE j \in DOMAIN str :
                 str[j] = "@" /\ \A k \in 1..(j - 1) : str[k] # "@"
    IN  SubSeq(str, i + 1, Len(str))

\* C16: the snapshot make_snapshot returns lists the components in the
\* order of the spec's entries, in whatever order the fetches were started
\* and ended: component i has entry i's rh-registry-repo, entry i's tags in
\* order, and (when its image was classified) an image whose digest is the
\* part of entry i's containerImage after '@'.
C16_ComponentsInSpecOrder ==
    makePc = "returned" =>
        /\ Len(made) = Len(snapshotSpec)
        /\ \A i \in DOMAIN snapshotSpec :
               /\ made[i].repository = snapshotSpec[i].rh_registry_repo
               /\ made[i].tags = snapshotSpec[i].tags
               /\ made[i].image.kind # "NoneType" =>
                      made[i].image.digest = AfterAt(snapshotSpec[i].containerImage)

\* two components of different repositories and digests, the second of
\* which had its manifest fetch started first
C16_Witness ==
    /\ makePc = "returned"
    /\ Len(made) = 2
    /\ made[1].repository # made[2].repository
    /\ made[1].image.digest # made[2].image.digest
    /\ made[1].image.kind = "IndexImage"
    /\ fetches[1].task = 2

(***************************************************************************)
(* Claims about Component.unique_tag (checked under SpecUniqueTag).        *)
(***************************************************************************)
AllDigits(s) == \A k \in DOMAIN s : s[k] \in DigitChars

\* s from position p on, with the literal dropped when s continues with it
DropOptional(s, lit) ==
    IF Len(s) >= Len(lit) /\ SubSeq(s, 1, Len(lit)) = lit
    THEN SubSeq(s, Len(lit) + 1, Len(s))
    ELSE s

\* the whole of s is [0-9]+\.[0-9]+(\.[0-9]+)?-[0-9]{8,}
IsVersionAndStamp(s) ==
    \E dot \in DOMAIN s : \E dash \in DOMAIN s :
        /\ 1 < dot /\ dot + 1 < dash /\ Len(s) - dash >= 8
        /\ s[dot] = "." /\ s[dash] = "-"
        /\ AllDigits(SubSeq(s, 1, dot - 1))
        /\ AllDigits(SubSeq(s, dash + 1, Len(s)))
        /\ \/ AllDigits(SubSeq(s, dot + 1, dash - 1))
           \/ \E dot2 \in (dot + 2)..(dash - 2) :
                 /\ s[dot2] = "."
                 /\ AllDigits(SubSeq(s, dot + 1, dot2 - 1))
                 /\ AllDigits(SubSeq(s, dot2 + 1, dash - 1))

\* the whole tag is (rhel-)?v?[0-9]+\.[0-9]+(\.[0-9]+)?-[0-9]{8,}
IsFullMatch(tag) ==
    IsVersionAndStamp(
        DropOptional(DropOptional(tag, <<"r", "h", "e", "l", "-">>), <<"v">>))

FullMatches == {t \in DOMAIN tagList : IsFullMatch(tagList[t])}

\* C18: unique_tag is the first listed tag that is, as a whole, of the form
\* (rhel-)?v?digits.digits(.digits)?-(8 or more digits), and none when no
\* listed tag is; a tag that only begins with such a form is not chosen.
C18_UniqueTagIsFirstFullMatch ==
    uniqueTag.read =>
        IF FullMatches = {} THEN uniqueTag.value = None
        ELSE \E t \in FullMatches :
                /\ \A u \in FullMatches : t <= u
                /\ uniqueTag.value = Some(tagList[t])

(***************************************************************************)
(* Claims about run_async_subprocess (checked under SpecSubprocess).       *)
(***************************************************************************)
\* the attempts that have exited, and those that exited non-zero
ExitedAttempts == {i \in DOMAIN attempts : attempts[i] # None}

FailedAttempts == {i \in ExitedAttempts : Val(attempts[i]).code # 0}

\* C23: with retry_times = n >= 0 the command is spawned at most n+1 times,
\* an attempt is spawned only after every earlier one exited non-zero, the
\* call returns only after at least one attempt, at the first exit with code
\* 0 or after n+1 attempts, with the exit code and output of the last attempt,
\* so that n+1 failed attempts give a non-zero code; with n < 0 it raises
\* without spawning anything.
C23_BoundedRetries ==
    /\ (retry_times < 0) =>
          /\ attempts = <<>>
          /\ subPc \in {"called", "raised"}
          /\ subPc = "raised" => subRet = RaiseOf("ValueError")
    /\ (retry_times >= 0) =>
          /\ subPc # "raised"
          /\ Len(attempts) <= retry_times + 1
          /\ \A i \in DOMAIN attempts :
                i < Len(attempts) => i \in FailedAttempts
          /\ (subPc = "returned") =>
                /\ Len(attempts) >= 1
                /\ LastExited
                /\ subRet = ReturnOf(Val(attempts[Len(attempts)]).code,
                                     Val(attempts[Len(attempts)]).output)
                /\ \/ subRet.code = 0
                   \/ Len(attempts) = retry_times + 1
                /\ (FailedAttempts = DOMAIN attempts) => subRet.code # 0
          /\ (subPc # "returned") => FailedAttempts = ExitedAttempts

\* a call that returned the failure of its last attempt after all the
\* attempts it was allowed, more than one
C23_Witness ==
    /\ subPc = "returned"
    /\ retry_times >= 1
    /\ Len(attempts) = retry_times + 1
    /\ subRet.code # 0

\* a call that returned success on a retry
C23_WitnessRetrySucceeds ==
    /\ subPc = "returned"
    /\ Len(attempts) >= 2
    /\ subRet.code = 0

\* a call with a negative retry_times that raised
C23_WitnessNegative ==
    /\ subPc = "raised"
    /\ retry_times < 0

====
